---- MODULE Spec2Model ----
(***************************************************************************)
(* Model of pulp_dashboard.py: the column resolver, the time-window       *)
(* filter, the upload step that commits the session, and the conditional  *)
(* rendering of the dashboard panels.                                     *)
(*                                                                         *)
(* Text is modelled as a sequence of tokens; a token stands for a run of  *)
(* characters of the original (Chinese) text, transliterated to ASCII.    *)
(* Python's `a in b` on strings is the infix test on token sequences.     *)
(* Timestamps are day numbers since 1970-01-01; the cells of a file hold  *)
(* civil dates <<y, m, d>> that pd.to_datetime converts.                   *)
(***************************************************************************)
EXTENDS Integers, Sequences, FiniteSets, TLC

\* Optional values: Python's None is the empty sequence, a value x is <<x>>.
None == <<>>
Some(x) == <<x>>

\* A missing price cell (NaN) is None, a price p is Some(p).
NaN == None

\* pandas keeps NaT as the smallest integer of the timestamp type.
NaT == -2147483647

----------------------------------------------------------------------------
(* Configuration *)

\* Dictionaries are sequences of <<key, value>> pairs in insertion order.
ZhLabels ==
  << <<"title", "ZhiJiang ShiChang ShuJu YiBiaoBan">>,
             <<"upload", "ShangChuan Excel WenJian">>,
             <<"time_period", "ShiJianDuan">>,
             <<"last_5_years", "GuoQu 5 Nian">>,
             <<"last_24_months", "GuoQu 24 Ge Yue">>,
             <<"last_12_months", "GuoQu 12 Ge Yue">>,
             <<"last_6_months", "GuoQu 6 Ge Yue">>,
             <<"last_1_month", "GuoQu 1 Ge Yue">>,
             <<"price_trends", "JiaGe QuShi">>,
             <<"statistics", "TongJi ShuJu">>,
             <<"correlation", "XiangGuanXing FenXi">>,
             <<"trend_seasonality", "QuShi Yu JiJieXing FenXi">>,
             <<"data_preview", "ShuJu YuLan">>,
             <<"product", "ChanPin">>,
             <<"mean", "PingJunZhi">>,
             <<"median", "ZhongWeiShu">>,
             <<"std_dev", "BiaoZhunCha">>,
             <<"min", "ZuiXiaoZhi">>,
             <<"max", "ZuiDaZhi">>,
             <<"select_product", "XuanZe ChanPin">>,
             <<"trend_direction", "QuShi FangXiang">>,
             <<"seasonal_range", "JiJieXing BoDong">>,
             <<"residual_std", "CanCha BiaoZhunCha">>,
             <<"upward", "ShangSheng">>,
             <<"downward", "XiaJiang">> >>

EnLabels ==
  << <<"title", "Pulp Market Data Dashboard">>,
             <<"upload", "Upload Excel file">>,
             <<"time_period", "Time Period">>,
             <<"last_5_years", "Last 5 Years">>,
             <<"last_24_months", "Last 24 Months">>,
             <<"last_12_months", "Last 12 Months">>,
             <<"last_6_months", "Last 6 Months">>,
             <<"last_1_month", "Last 1 Month">>,
             <<"price_trends", "Price Trends">>,
             <<"statistics", "Statistics">>,
             <<"correlation", "Correlation Analysis">>,
             <<"trend_seasonality", "Trend & Seasonality Analysis">>,
             <<"data_preview", "Data Preview">>,
             <<"product", "Product">>,
             <<"mean", "Mean">>,
             <<"median", "Median">>,
             <<"std_dev", "Std Dev">>,
             <<"min", "Min">>,
             <<"max", "Max">>,
             <<"select_product", "Select Product">>,
             <<"trend_direction", "Trend Direction">>,
             <<"seasonal_range", "Seasonal Range">>,
             <<"residual_std", "Residual Std">>,
             <<"upward", "Upward">>,
             <<"downward", "Downward">> >>

\* TRANSLATIONS with the English label of the 24 months copied from that of
\* the 12 months.
TRANSLATIONS_CopiedLabel ==
  [zh |-> ZhLabels, en |-> [EnLabels EXCEPT ![5] = <<"last_24_months", "Last 12 Months">>]]

TRANSLATIONS == [zh |-> ZhLabels, en |-> EnLabels]

\* Iteration order of COLUMNS.items().
KeyOrder == <<"suzano", "westfraser", "white_card", "double_offset">>

Keys == {KeyOrder[i] : i \in 1..Len(KeyOrder)}

COLUMNS ==
  [suzano        |-> <<"Shandong", "Market", "Suzano", "BroadleafPulp", "(", "Goldfish", ")", "DailyPrice">>,
   westfraser    |-> <<"Shandong", "Market", "WestFraser", "CTMP", "(", "Kunhe", ")", "DailyPrice">>,
   white_card    |-> <<"Shandong", "Market", "WhiteCard", "(", "250-400g", ")", "DailyPrice">>,
   double_offset |-> <<"Shandong", "Market", "DoubleOffset", "(", "70", "g", "Tianyang", ")", "DailyPrice">>]

KEY_TERMS ==
  [suzano        |-> << <<"Suzano">>, <<"BroadleafPulp">>, <<"Goldfish">> >>,
   westfraser    |-> << <<"WestFraser">>, <<"CTMP">>, <<"Kunhe">> >>,
   white_card    |-> << <<"WhiteCard">>, <<"250-400g">> >>,
   double_offset |-> << <<"DoubleOffset">>, <<"70", "g">>, <<"Tianyang">>,
                        <<"Huaxia", "Sun">>, <<"Guangdong", "Market">> >>]

\* TIME_PERIODS with the month taken as 31 days.
TIME_PERIODS_Month31 ==
  [last_5_years |-> 5 * 365, last_24_months |-> 24 * 30, last_12_months |-> 12 * 30,
   last_6_months |-> 180, last_1_month |-> 31]

TIME_PERIODS ==
  [last_5_years |-> 5 * 365, last_24_months |-> 24 * 30, last_12_months |-> 12 * 30,
   last_6_months |-> 180, last_1_month |-> 30]

\* The options of the period selector, in the order the sidebar lists them.
PeriodOptions ==
  <<"last_5_years", "last_24_months", "last_12_months", "last_6_months", "last_1_month">>

Languages == {"zh", "en"}

----------------------------------------------------------------------------
(* Column labels and the column resolver *)

\* A column label as read from the header row: a Python value with its
\* str() text.  Header cells holding text give str labels, numeric header
\* cells give int labels.
StrLabel(tokens) == [type |-> "str", text |-> tokens]
IntLabel(tokens) == [type |-> "int", text |-> tokens]

\* str(col)
Str(col) == col.text

\* col_name == col, with col_name a str: a str never equals an int.
PyEq(col_name, col) == col.type = "str" /\ col.text = col_name

\* term in s, for strings
Contains(s, term) ==
  \E i \in 0..(Len(s) - Len(term)) : SubSeq(s, i + 1, i + Len(term)) = term

\* any(term in str(col) for term in KEY_TERMS[key])
AnyTerm(key, col) ==
  \E j \in 1..Len(KEY_TERMS[key]) : Contains(Str(col), KEY_TERMS[key][j])

\* KeywordScan with the loops nested the other way round: the first keyword
\* that occurs in some column decides.
RECURSIVE KeywordScan_TermMajor(_, _, _)
KeywordScan_TermMajor(key, df_columns, i) ==
  IF i > Len(KEY_TERMS[key]) THEN None
  ELSE LET hits == SelectSeq(df_columns, LAMBDA col : Contains(Str(col), KEY_TERMS[key][i]))
       IN IF hits # <<>> THEN Some(hits[1])
          ELSE KeywordScan_TermMajor(key, df_columns, i + 1)

\* for col in df_columns: if any(...): bind col; break
RECURSIVE KeywordScan(_, _, _)
KeywordScan(key, df_columns, i) ==
  IF i > Len(df_columns) THEN None
  ELSE IF AnyTerm(key, df_columns[i]) THEN Some(df_columns[i])
  ELSE KeywordScan(key, df_columns, i + 1)

\* MatchKey without the exact-name step.
MatchKey_KeywordOnly(key, df_columns) == KeywordScan(key, df_columns, 1)

\* The body of the loop over COLUMNS.items() for one key: the column bound
\* to the key, or None when the key stays out of the dictionary.
MatchKey(key, df_columns) ==
  LET exact_match == SelectSeq(df_columns, LAMBDA col : PyEq(COLUMNS[key], col))
  IN IF exact_match # <<>> THEN Some(exact_match[1])
     ELSE KeywordScan(key, df_columns, 1)

\* find_matching_columns that gives up at the first key it cannot bind.
find_matching_columns_StopAtUnbound(df_columns) ==
  LET bound == {key \in Keys :
                  \A i \in 1..Len(KeyOrder) :
                    (\E j \in i..Len(KeyOrder) : KeyOrder[j] = key)
                    => MatchKey(KeyOrder[i], df_columns) # None}
  IN [key \in bound |-> MatchKey(key, df_columns)[1]]

\* The returned dictionary: a function on the bound keys.  Its iteration
\* order is KeyOrder restricted to its domain.
find_matching_columns(df_columns) ==
  LET bound == {key \in Keys : MatchKey(key, df_columns) # None}
  IN [key \in bound |-> MatchKey(key, df_columns)[1]]

----------------------------------------------------------------------------
(* Dates *)

\* The day number of the civil date y-m-d (proleptic Gregorian calendar,
\* day 0 is 1970-01-01): what pd.to_datetime makes of a date cell.
days_from_civil(y, m, d) ==
  LET yy  == IF m <= 2 THEN y - 1 ELSE y
      era == yy \div 400
      yoe == yy - era * 400
      mp  == IF m > 2 THEN m - 3 ELSE m + 9
      doy == (153 * mp + 2) \div 5 + d - 1
      doe == yoe * 365 + yoe \div 4 - yoe \div 100 + doy
  IN era * 146097 + doe - 719468

\* The civil date <<y, m, d>> of a day number.
civil_from_days(z0) ==
  LET z   == z0 + 719468
      era == z \div 146097
      doe == z - era * 146097
      yoe == (doe - doe \div 1460 + doe \div 36524 - doe \div 146096) \div 365
      doy == doe - (365 * yoe + yoe \div 4 - yoe \div 100)
      mp  == (5 * doy + 2) \div 153
      d   == doy - (153 * mp + 2) \div 5 + 1
      m   == IF mp < 10 THEN mp + 3 ELSE mp - 9
      y   == yoe + era * 400
  IN << IF m <= 2 THEN y + 1 ELSE y, m, d >>

\* The monthly bin resample('M') puts a timestamp in.
MonthBin(day) == LET c == civil_from_days(day) IN c[1] * 12 + (c[2] - 1)

\* Comparison of timestamps: any comparison with NaT is False.
TsGe(a, b) == a # NaT /\ b # NaT /\ a >= b

\* Timestamp minus timedelta(days): NaT stays NaT.
TsMinusDays(a, days) == IF a = NaT THEN NaT ELSE a - days

----------------------------------------------------------------------------
(* Files and tables *)

\* The cells of the first column of a sheet.
DateCell(y, m, d) == [kind |-> "date", ymd |-> <<y, m, d>>]
BlankCell == [kind |-> "blank", ymd |-> <<>>]
TextCell == [kind |-> "text", ymd |-> <<>>]

\* pd.to_datetime on one cell; a cell of text that is no date raises.
CellParses(cell) == cell.kind # "text"
to_datetime(cell) ==
  IF cell.kind = "date" THEN days_from_civil(cell.ymd[1], cell.ymd[2], cell.ymd[3])
  ELSE NaT

\* Ascending order of sort_values: NaT sorts last.
TsLe(a, b) == IF b = NaT THEN TRUE ELSE IF a = NaT THEN FALSE ELSE a <= b

\* df.sort_values(date_col) on the rows: rows in order stay as they are;
\* otherwise row i goes after the rows that sort before it, and rows of
\* equal date keep their order.
sort_values(rows) ==
  LET n == Len(rows)
      Before(j, i) == IF rows[j].date = rows[i].date THEN j < i
                      ELSE TsLe(rows[j].date, rows[i].date)
      rank == [i \in 1..n |-> Cardinality({j \in 1..n : Before(j, i)}) + 1]
  IN IF \A i \in 1..(n - 1) : TsLe(rows[i].date, rows[i + 1].date) THEN rows
     ELSE [k \in 1..n |-> rows[CHOOSE i \in 1..n : rank[i] = k]]

\* The larger of two timestamps, NaT skipped.
TsMax(a, b) == IF a = NaT THEN b ELSE IF b = NaT THEN a ELSE IF a >= b THEN a ELSE b

\* The maximum of the dates of rows lo..hi.
RECURSIVE MaxDateIn(_, _, _)
MaxDateIn(rows, lo, hi) ==
  IF lo > hi THEN NaT
  ELSE IF lo = hi THEN rows[lo].date
  ELSE LET mid == (lo + hi) \div 2
       IN TsMax(MaxDateIn(rows, lo, mid), MaxDateIn(rows, mid + 1, hi))

\* df[date_col].max(): NaT rows are skipped, NaT when nothing is left.
MaxDate(rows) == MaxDateIn(rows, 1, Len(rows))

\* dict lookup t[key]
Lookup(t, key) == t[CHOOSE i \in 1..Len(t) : t[i][1] = key][2]

\* A sheet: whether read_excel can read it, its header row and its rows.  A
\* row holds the cell of the first column and the cells of the others.
File(readable, columns, rows) ==
  [readable |-> readable, columns |-> columns, rows |-> rows]

\* Lines 169-172 on a file they accept: the table with the first column
\* converted to timestamps and the rows sorted on it.
LoadedTable(file) ==
  [columns |-> file.columns,
   rows |-> sort_values([i \in 1..Len(file.rows) |->
                          [date |-> to_datetime(file.rows[i].date),
                           values |-> file.rows[i].values]])]

\* col in data.columns
InColumns(col, data) == \E i \in 1..Len(data.columns) : data.columns[i] = col

\* Position of a label among the columns.
ColumnIndex(col, data) == CHOOSE i \in 1..Len(data.columns) : data.columns[i] = col

----------------------------------------------------------------------------
(* Time-window filter *)

\* [k for k, v in t.items() if v == period][0]
PeriodKeyOf(t, period) == SelectSeq(t, LAMBDA kv : kv[2] = period)[1][1]

\* get_filtered_data with the cutoff itself left out.
get_filtered_data_Exclusive(df, date_col, period, t) ==
  LET period_key == PeriodKeyOf(t, period)
      days == TIME_PERIODS[period_key]
      start_date == TsMinusDays(MaxDate(df.rows), days)
  IN [columns |-> df.columns,
      rows |-> SelectSeq(df.rows, LAMBDA row : row.date # start_date /\ TsGe(row.date, start_date))]

get_filtered_data(df, date_col, period, t) ==
  LET period_key == PeriodKeyOf(t, period)
      days == TIME_PERIODS[period_key]
      start_date == TsMinusDays(MaxDate(df.rows), days)
  IN [columns |-> df.columns,
      rows |-> SelectSeq(df.rows, LAMBDA row : TsGe(row.date, start_date))]

----------------------------------------------------------------------------
(* Analyses *)

\* The values of available_cols in dictionary order, with their keys.
Items(available_cols) ==
  SelectSeq([i \in 1..Len(KeyOrder) |-> KeyOrder[i]],
            LAMBDA key : key \in DOMAIN available_cols)

\* corr_cols of create_correlation_analysis
CorrCols(data, available_cols) ==
  LET keys == SelectSeq(Items(available_cols),
                        LAMBDA key : InColumns(available_cols[key], data))
  IN [i \in 1..Len(keys) |-> available_cols[keys[i]]]

\* create_stats_table: "table", or "raised" when formatting a statistic
\* fails.  The statistics of the price cells are numbers; what the library
\* returns for a column of timestamps and whether the format accepts it is
\* the library's choice, lib_ok.
create_stats_table(data, date_col, available_cols, lib_ok) ==
  IF (\E key \in DOMAIN available_cols : available_cols[key] = date_col) /\ ~lib_ok
  THEN "raised"
  ELSE "table"

\* "none": (None, None); "matrix": the heat map and the table.
create_correlation_analysis(data, available_cols) ==
  LET corr_cols == CorrCols(data, available_cols)
  IN IF Len(corr_cols) < 2 THEN "none" ELSE "matrix"

\* len(data.set_index(date_col)[analysis_col].resample('M').mean().dropna())
MonthlyPoints(data, analysis_col) ==
  LET c == ColumnIndex(analysis_col, data) - 1
  IN Cardinality({MonthBin(data.rows[i].date) :
                    i \in {j \in 1..Len(data.rows) : data.rows[j].values[c] # NaN}})

\* The result of create_trend_analysis: fig says whether a figure is
\* returned, attempted whether seasonal_decompose was called, raised
\* whether an exception left the function.  lib_ok is the library's
\* choice to decompose or to fail inside the try block.
create_trend_analysis(data, date_col, selected_product, available_cols, has_statsmodels, lib_ok) ==
  IF ~has_statsmodels THEN [fig |-> FALSE, attempted |-> FALSE, raised |-> FALSE]
  ELSE LET analysis_col == available_cols[selected_product]
       IN IF analysis_col = date_col
          THEN [fig |-> FALSE, attempted |-> FALSE, raised |-> TRUE]
          ELSE IF MonthlyPoints(data, analysis_col) < 24
          THEN [fig |-> FALSE, attempted |-> FALSE, raised |-> FALSE]
          ELSE [fig |-> lib_ok, attempted |-> TRUE, raised |-> FALSE]

----------------------------------------------------------------------------
(* The script *)

VARIABLES
  df_data,          \* st.session_state.df_data: None or Some(table)
  available_cols,   \* st.session_state.available_cols: a dictionary
  date_col,         \* st.session_state.date_col: None or Some(label)
  lang_code,        \* the language selector
  uploaded_file,    \* the file uploader: None or Some(file)
  period_index,     \* the position chosen in the period selector
  HAS_STATSMODELS,  \* whether the import of the decomposition succeeded
  out,              \* what the last run of the script did and showed
  last_ok,          \* history: the last uploaded file that lines 169-172 accept
  prev_blocked      \* history: the run before the last stopped on an empty mapping

vars == <<df_data, available_cols, date_col, lang_code, uploaded_file,
          period_index, HAS_STATSMODELS, out, last_ok, prev_blocked>>

Session(d, a, c) == [df_data |-> d, available_cols |-> a, date_col |-> c]

\* Lines 54-56
\* An empty dictionary
EmptyDict == [key \in {} |-> None]

\* Lines 54-56
InitialSession == Session(None, EmptyDict, None)

\* ProcessUpload that stores the table in the session before the dates are
\* checked.
ProcessUpload_CommitEarly(session, file) ==
  IF ~file.readable THEN [session |-> session, error |-> TRUE]
  ELSE IF Len(file.columns) = 0 THEN [session |-> session, error |-> TRUE]
  ELSE LET df == LoadedTable(file)
           s1 == [session EXCEPT !.df_data = Some(df)]
           s2 == [s1 EXCEPT !.available_cols = find_matching_columns(df.columns)]
           s3 == [s2 EXCEPT !.date_col = Some(file.columns[1])]
       IN IF \E i \in 1..Len(file.rows) : ~CellParses(file.rows[i].date)
          THEN [session |-> s1, error |-> TRUE]
          ELSE [session |-> s3, error |-> FALSE]

\* The try block of lines 167-179 on a file: the session it leaves and
\* whether an exception reached the handler.
ProcessUpload(session, file) ==
  IF ~file.readable THEN [session |-> session, error |-> TRUE]
  ELSE IF Len(file.columns) = 0 THEN [session |-> session, error |-> TRUE]
  ELSE IF \E i \in 1..Len(file.rows) : ~CellParses(file.rows[i].date)
       THEN [session |-> session, error |-> TRUE]
  ELSE LET df == LoadedTable(file)
           s1 == [session EXCEPT !.df_data = Some(df)]
           s2 == [s1 EXCEPT !.available_cols = find_matching_columns(df.columns)]
           s3 == [s2 EXCEPT !.date_col = Some(file.columns[1])]
       IN [session |-> s3, error |-> FALSE]

Output(status, message, shown, period_key, current_df, selected_product, decomposition) ==
  [status |-> status, message |-> message, shown |-> shown, period_key |-> period_key,
   current_df |-> current_df, selected_product |-> selected_product,
   decomposition |-> decomposition]

\* Lines 177-179: st.error and st.stop
LoadErrorOutput == Output("stopped", "load_error", <<>>, "", None, "", "skipped")

\* Lines 185-187: st.error and st.stop
NoMatchOutput == Output("stopped", "no_matching_columns", <<>>, "", None, "", "skipped")

\* Lines 239-244
UploadHintOutput == Output("done", "", <<"upload_hint">>, "", None, "", "skipped")

\* product_options of line 214
ProductOptions(current_df, cols) ==
  SelectSeq(Items(cols), LAMBDA key : InColumns(cols[key], current_df))

\* Lines 211-227: the elements the trend and seasonality section shows,
\* the product selected, what became of the decomposition, and whether an
\* exception left the section.
TrendSection(current_df, dcol, cols, has_statsmodels, sel, lib_ok) ==
  IF has_statsmodels /\ Len(current_df.rows) > 24
  THEN LET product_options == ProductOptions(current_df, cols)
       IN IF product_options = <<>>
          THEN [shown |-> <<"trend_header">>, selected |-> "", decomposition |-> "skipped", raised |-> FALSE]
          ELSE LET selected_product == product_options[IF sel <= Len(product_options) THEN sel ELSE 1]
                   r == create_trend_analysis(current_df, dcol, selected_product, cols, has_statsmodels, lib_ok)
               IN [shown |-> <<"trend_header", "select_product">> \o
                             (IF r.raised THEN <<>>
                              ELSE IF r.fig THEN <<"decomposition_chart", "decomposition_metrics">>
                              ELSE <<"decomposition_warning">>),
                   selected |-> selected_product,
                   decomposition |-> IF r.attempted THEN "attempted" ELSE "not_attempted",
                   raised |-> r.raised]
  ELSE IF ~has_statsmodels
  THEN [shown |-> <<"statsmodels_info">>, selected |-> "", decomposition |-> "skipped", raised |-> FALSE]
  ELSE [shown |-> <<>>, selected |-> "", decomposition |-> "skipped", raised |-> FALSE]

\* Lines 189-237, for a table with a non-empty mapping.
Dashboard(df, cols, dcol, period, t, has_statsmodels, sel, lib_ok) ==
  LET current_df == get_filtered_data(df, dcol, period, t)
      period_key == PeriodKeyOf(t, period)
      stats == create_stats_table(current_df, dcol, cols, lib_ok)
      corr  == create_correlation_analysis(current_df, cols)
      trend == TrendSection(current_df, dcol, cols, has_statsmodels, sel, lib_ok)
      upto_corr == <<"price_trends_chart", "statistics_table">> \o
                   (IF corr = "matrix" THEN <<"correlation_matrix">>
                    ELSE <<"correlation_warning">>)
      upto_trend == upto_corr \o trend.shown
  IN IF stats = "raised"
     THEN Output("exception", "", <<"price_trends_chart">>, period_key, Some(current_df),
                 "", "skipped")
     ELSE IF trend.raised
     THEN Output("exception", "", upto_trend, period_key, Some(current_df),
                 trend.selected, trend.decomposition)
     \* line 235: the minimum of no dates is NaT, which has no strftime
     ELSE IF current_df.rows = <<>>
     THEN Output("exception", "", upto_trend \o <<"data_preview">>, period_key,
                 Some(current_df), trend.selected, trend.decomposition)
     ELSE Output("done", "", upto_trend \o <<"data_preview", "summary_metrics">>,
                 period_key, Some(current_df), trend.selected, trend.decomposition)

\* MainSection without the check of the mapping.
MainSection_NoGuard(session, period, t, has_statsmodels, sel, lib_ok) ==
  IF session.df_data # None
  THEN Dashboard(session.df_data[1], session.available_cols, session.date_col[1],
                 period, t, has_statsmodels, sel, lib_ok)
  ELSE UploadHintOutput

\* Lines 181-244
MainSection(session, period, t, has_statsmodels, sel, lib_ok) ==
  IF session.df_data # None
  THEN IF DOMAIN session.available_cols = {}
       THEN NoMatchOutput
       ELSE Dashboard(session.df_data[1], session.available_cols, session.date_col[1],
                      period, t, has_statsmodels, sel, lib_ok)
  ELSE UploadHintOutput

\* Whether lines 169-172 accept the file.
FileLoads(file) ==
  /\ file.readable
  /\ Len(file.columns) >= 1
  /\ \A i \in 1..Len(file.rows) : file.rows[i].date.kind \in {"date", "blank"}

\* The positions of the product selector a run may be given.
MaxSel == 2

\* One run of the script, top to bottom, with the widgets at f, l and p.
\* Within the run, sel is the position chosen in the product selector and
\* lib_ok the choice of the analysis library.
Script(f, l, p) ==
  LET t == TRANSLATIONS[l]
      period == Lookup(t, PeriodOptions[p])
      before == Session(df_data, available_cols, date_col)
  IN \E up \in {IF f # None THEN ProcessUpload(before, f[1])
                 ELSE [session |-> before, error |-> FALSE]} :
       /\ uploaded_file' = f
       /\ lang_code' = l
       /\ period_index' = p
       /\ df_data' = up.session.df_data
       /\ available_cols' = up.session.available_cols
       /\ date_col' = up.session.date_col
       /\ \E sel \in 1..MaxSel, lib_ok \in BOOLEAN :
            out' = IF up.error THEN LoadErrorOutput
                   ELSE MainSection(up.session, period, t, HAS_STATSMODELS, sel, lib_ok)
       /\ last_ok' = IF f # None /\ FileLoads(f[1]) THEN f ELSE last_ok
       /\ prev_blocked' = (out.message = "no_matching_columns")
       /\ UNCHANGED HAS_STATSMODELS

----------------------------------------------------------------------------
(* The sheets the user uploads *)

MaxCols == 3
MaxRows == 6
LongRows == 26

Date == StrLabel(<<"Date">>)
Year == IntLabel(<<"2024">>)
SuzanoExact == StrLabel(COLUMNS["suzano"])
WhiteCardExact == StrLabel(COLUMNS["white_card"])
SuzanoSpot == StrLabel(<<"Suzano", "BroadleafPulp", "Spot">>)
GoldfishPrice == StrLabel(<<"Goldfish", "Price">>)
GuangdongWhiteCard == StrLabel(<<"Guangdong", "Market", "WhiteCard">>)
Paper170g == StrLabel(<<"1", "70", "g", "Paper">>)
Volume == StrLabel(<<"Volume">>)
GuangdongDate == StrLabel(<<"Date", "(", "Guangdong", "Market", ")">>)

Labels == {Date, Year, SuzanoExact, WhiteCardExact, SuzanoSpot, GoldfishPrice,
           GuangdongWhiteCard, Paper170g, Volume}

\* Header rows: pandas makes the labels of a sheet distinct.
ColumnSeqs(n) ==
  {cs \in UNION {[1..k -> Labels] : k \in 0..n} :
     \A i \in 1..Len(cs) : \A j \in 1..Len(cs) : i # j => cs[i] # cs[j]}

\* n rows, the first dated y-m-d and each one stride days after the one
\* before, with ncols price cells each; the second and later price columns
\* are empty in the first gap rows.
Rows(y, m, d, n, stride, ncols, gap) ==
  [i \in 1..n |->
     LET c == civil_from_days(days_from_civil(y, m, d) + (i - 1) * stride)
     IN [date |-> DateCell(c[1], c[2], c[3]),
         values |-> [k \in 1..ncols |-> IF k >= 2 /\ i <= gap THEN NaN ELSE Some(100 + i)]]]

Reverse(seq) == [i \in 1..Len(seq) |-> seq[Len(seq) + 1 - i]]

\* Sheets with every header row of up to MaxCols labels and two rows.
ResolverFiles ==
  {File(TRUE, cs, Rows(2024, 1, 1, 2, 1, IF Len(cs) = 0 THEN 0 ELSE Len(cs) - 1, 0)) :
     cs \in ColumnSeqs(MaxCols)}

Strides == {1, 30, 90, 365}

\* Sheets of one price column with up to MaxRows rows, in ascending or in
\* descending order of date, some with a last row whose date cell is blank,
\* and the sheet of the first quarter of 2024.
FilterFiles ==
  {File(TRUE, <<Date, SuzanoExact>>, Rows(2020, 3, 1, n, stride, 1, 0)) :
     n \in 0..MaxRows, stride \in Strides}
  \cup {File(TRUE, <<Date, SuzanoExact>>, Reverse(Rows(2020, 3, 1, n, stride, 1, 0))) :
          n \in 2..MaxRows, stride \in Strides}
  \cup {File(TRUE, <<Date, SuzanoExact>>,
              <<[date |-> BlankCell, values |-> <<Some(1)>>]>> \o Rows(2020, 3, 1, n, 30, 1, 0)) :
          n \in 0..2}
  \cup {File(TRUE, <<Date, SuzanoExact>>, Rows(2024, 1, 1, 91, 1, 1, 0))}

SessionColumns ==
  {<<Date, SuzanoExact, WhiteCardExact>>, <<Date, GuangdongWhiteCard>>,
   <<Date, SuzanoSpot>>, <<Date, Volume>>, <<GuangdongDate, SuzanoExact>>}

\* Sheets that load (empty, short and unsorted, more than 24 rows within two
\* months, more than 24 rows a month apart) and sheets that do not (not
\* readable, no columns, a date cell that is no date).
RowKinds == {"empty", "short", "daily", "monthly"}

SessionRows(kind, ncols) ==
  CASE kind = "empty" -> <<>>
    [] kind = "short" -> Reverse(Rows(2024, 1, 30, 3, 1, ncols, 0))
    [] kind = "daily" -> Rows(2024, 1, 20, LongRows, 1, ncols, 0)
    [] kind = "monthly" -> Rows(2021, 1, 15, LongRows, 31, ncols, 3)

SessionFiles ==
  {File(TRUE, cs, SessionRows(kind, Len(cs) - 1)) : cs \in SessionColumns, kind \in RowKinds}
  \cup {File(FALSE, <<>>, <<>>),
        File(TRUE, <<>>, <<>>),
        File(TRUE, <<Date, SuzanoExact>>,
             Rows(2024, 1, 1, 2, 1, 1, 0) \o <<[date |-> TextCell, values |-> <<Some(1)>>]>>)}

----------------------------------------------------------------------------
(* Behaviours *)

\* The first run of a new session: default widgets, no file.
Init ==
  /\ df_data = InitialSession.df_data
  /\ available_cols = InitialSession.available_cols
  /\ date_col = InitialSession.date_col
  /\ lang_code = "zh"
  /\ uploaded_file = None
  /\ period_index = 1
  /\ HAS_STATSMODELS \in BOOLEAN
  /\ out = UploadHintOutput
  /\ last_ok = None
  /\ prev_blocked = FALSE

\* The user puts a sheet in the uploader.
Upload(files) == \E file \in files : Script(Some(file), lang_code, period_index)

\* The user takes the sheet out of the uploader.
RemoveFile == uploaded_file # None /\ Script(None, lang_code, period_index)

\* The user picks the other language.  The uploader and the period selector
\* are labelled in the language, so the framework may keep their values or
\* give them their defaults.
SelectLanguage ==
  \E l \in Languages \ {lang_code}, f \in {uploaded_file, None}, p \in {period_index, 1} :
    Script(f, l, p)

\* The user picks another period.
SelectPeriod ==
  \E p \in (1..Len(PeriodOptions)) \ {period_index} : Script(uploaded_file, lang_code, p)

\* The user picks a product in the trend section, or the script is run
\* again for any other reason.
Rerun == Script(uploaded_file, lang_code, period_index)

\* The first upload of a session.
UploadFirst(files) == uploaded_file = None /\ df_data = None /\ Upload(files)

UploadSessionFile == Upload(SessionFiles)
UploadResolverFile == UploadFirst(ResolverFiles)
UploadFilterFile == UploadFirst(FilterFiles)

\* A session of uploads, good and bad, one after another.
Next == UploadSessionFile \/ RemoveFile \/ SelectLanguage \/ SelectPeriod \/ Rerun
Spec == Init /\ [][Next]_vars

\* Sessions that upload one sheet, over all header rows.
NextResolver == UploadResolverFile \/ RemoveFile
SpecResolver == Init /\ [][NextResolver]_vars

\* Sessions that upload one sheet of dated rows and browse the periods.
NextFilter == UploadFilterFile \/ SelectLanguage \/ SelectPeriod
SpecFilter == Init /\ [][NextFilter]_vars

----------------------------------------------------------------------------
(* The column resolver: C1, C2, C3 *)

\* The header row of the table the session holds.
HeldColumns == df_data[1].columns

\* Some column carries exactly the canonical name of the key.
HasExact(key, columns) ==
  \E i \in 1..Len(columns) : columns[i] = StrLabel(COLUMNS[key])

\* The keywords of the key, as a set: their order in the list is dropped.
TermSet(key) == {KEY_TERMS[key][j] : j \in 1..Len(KEY_TERMS[key])}

\* The keywords of the key that occur in the text of the column.
TermsIn(key, col) == {term \in TermSet(key) : Contains(col.text, term)}

\* C1: whenever a column of the loaded table equals a key's canonical exact
\* name, the key is bound to that column, wherever it stands and whichever
\* columns before it contain keywords of the key.
C1_ExactNameWins ==
  df_data # None =>
    \A key \in Keys :
      HasExact(key, HeldColumns) =>
        /\ key \in DOMAIN available_cols
        /\ available_cols[key] = StrLabel(COLUMNS[key])

\* C1 witness: a key bound to its exact-name column that stands after a
\* column containing one of the key's keywords.
C1_Witness ==
  /\ df_data # None
  /\ \E key \in DOMAIN available_cols :
       \E i \in 1..Len(HeldColumns) : \E j \in 1..Len(HeldColumns) :
         /\ i < j
         /\ TermsIn(key, HeldColumns[i]) # {}
         /\ HeldColumns[i] # StrLabel(COLUMNS[key])
         /\ HeldColumns[j] = StrLabel(COLUMNS[key])
         /\ available_cols[key] = HeldColumns[j]

\* C2: a key whose exact name is not among the columns is bound to the
\* first column, in the order of the table, that contains some keyword of
\* the key; which keyword, and how many, plays no part.
C2_FirstKeywordColumn ==
  df_data # None =>
    \A key \in Keys :
      ~HasExact(key, HeldColumns) =>
        \A i \in 1..Len(HeldColumns) :
          (/\ TermsIn(key, HeldColumns[i]) # {}
           /\ \A j \in 1..(i - 1) : TermsIn(key, HeldColumns[j]) = {})
          => (key \in DOMAIN available_cols /\ available_cols[key] = HeldColumns[i])

\* C2 witness: a key bound by keyword to a column that stands before
\* another candidate containing more keywords, one of them earlier in the
\* keyword list than any the bound column contains.
C2_Witness ==
  /\ df_data # None
  /\ \E key \in DOMAIN available_cols :
       \E i \in 1..Len(HeldColumns) : \E j \in 1..Len(HeldColumns) :
         /\ ~HasExact(key, HeldColumns)
         /\ i < j
         /\ available_cols[key] = HeldColumns[i]
         /\ Cardinality(TermsIn(key, HeldColumns[j])) > Cardinality(TermsIn(key, HeldColumns[i]))
         /\ KEY_TERMS[key][1] \in TermsIn(key, HeldColumns[j]) \ TermsIn(key, HeldColumns[i])

\* C3: a key with no exact-name column and no column containing a keyword
\* is absent from the mapping, the upload does not end in the exception
\* handler, and every other key that has a candidate is still bound.
C3_UnmatchedKeyAbsent ==
  df_data # None =>
    /\ DOMAIN available_cols =
         {key \in Keys : HasExact(key, HeldColumns)
                          \/ \E i \in 1..Len(HeldColumns) : TermsIn(key, HeldColumns[i]) # {}}
    /\ (uploaded_file # None /\ FileLoads(uploaded_file[1])) => out.message # "load_error"

\* C3 witness: after an upload, the first key is left unbound and a later
\* key is bound.
C3_Witness ==
  /\ df_data # None
  /\ uploaded_file # None
  /\ "suzano" \notin DOMAIN available_cols
  /\ \A i \in 1..Len(HeldColumns) : TermsIn("suzano", HeldColumns[i]) = {}
  /\ "white_card" \in DOMAIN available_cols

----------------------------------------------------------------------------
(* The time-window filter: C4, C5, C9 *)

\* The rows of the table the session holds, and of the table the last run
\* filtered out of it.
HeldRows == df_data[1].rows
FilteredRows == out.current_df[1].rows

\* The day count of the position chosen in the period selector.
ChosenDays == TIME_PERIODS[PeriodOptions[period_index]]

\* The held table is as the loader leaves it when every date cell parsed:
\* no NaT, ascending.
AllDatesParsed ==
  /\ \A i \in 1..Len(HeldRows) : HeldRows[i].date # NaT
  /\ \A i \in 1..(Len(HeldRows) - 1) : HeldRows[i].date <= HeldRows[i + 1].date

\* C4: the filtered table holds exactly the rows dated within
\* [max - days, max], both ends included, in the order of the table; it is
\* empty for an empty table and the whole table when the period covers the
\* span of the dates.
C4_InclusiveWindow ==
  (out.current_df # None /\ AllDatesParsed) =>
    /\ HeldRows = <<>> => FilteredRows = <<>>
    /\ HeldRows # <<>> =>
         LET latest == HeldRows[Len(HeldRows)].date
         IN /\ FilteredRows =
                 SelectSeq(HeldRows, LAMBDA row : latest - ChosenDays <= row.date /\ row.date <= latest)
            /\ latest - HeldRows[1].date <= ChosenDays => FilteredRows = HeldRows

\* C4 witness: the filter dropped a row and kept, as its first row, a row
\* dated exactly max - days.
C4_Witness ==
  /\ out.current_df # None
  /\ AllDatesParsed
  /\ FilteredRows # <<>>
  /\ Len(FilteredRows) < Len(HeldRows)
  /\ FilteredRows[1].date = HeldRows[Len(HeldRows)].date - ChosenDays

\* The held table has one row per day from 2024-01-01 to 2024-03-31, and
\* the last run filtered it to the last month.
FirstQuarter2024LastMonth ==
  /\ out.current_df # None
  /\ Len(HeldRows) = 91
  /\ \A i \in 1..91 : HeldRows[i].date = days_from_civil(2024, 1, 1) + (i - 1)
  /\ civil_from_days(HeldRows[91].date) = <<2024, 3, 31>>
  /\ PeriodOptions[period_index] = "last_1_month"

\* The civil dates of the filtered rows.
FilteredDates == {civil_from_days(FilteredRows[i].date) : i \in 1..Len(FilteredRows)}

\* C5 as stated: of the daily table of the first quarter of 2024, the last
\* month is the 30 rows dated 2024-03-02 onward, without 2024-03-01.
C5_Original_From0302 ==
  FirstQuarter2024LastMonth =>
    /\ FilteredDates = {<<2024, 3, d>> : d \in 2..31}
    /\ Len(FilteredRows) = 30

\* C5 amended: of the daily table of the first quarter of 2024, the last
\* month is the 31 rows dated 2024-03-01 to 2024-03-31: the row dated on
\* the cutoff, 30 days before the last date, is returned.
C5_From0301 ==
  FirstQuarter2024LastMonth =>
    /\ FilteredDates = {<<2024, 3, d>> : d \in 1..31}
    /\ Len(FilteredRows) = 31
    /\ civil_from_days(FilteredRows[1].date) = <<2024, 3, 1>>

\* C5 witness: the first quarter of 2024 filtered to the last month.
C5_Witness == FirstQuarter2024LastMonth /\ Len(FilteredRows) > 0

\* C9: the run resolves the label of the chosen position back to the key
\* of that position, and a run in either language over the held table and
\* that position filters to the same rows as the last run did.
C9_LanguageIndependent ==
  out.current_df # None =>
    /\ out.period_key = PeriodOptions[period_index]
    /\ \A l \in Languages :
         LET t == TRANSLATIONS[l]
             label == Lookup(t, PeriodOptions[period_index])
         IN /\ PeriodKeyOf(t, label) = PeriodOptions[period_index]
            /\ get_filtered_data(df_data[1], date_col[1], label, t) = out.current_df[1]

\* C9 witness: a run in English at a position other than the first whose
\* filter dropped rows.
C9_Witness ==
  /\ out.current_df # None
  /\ lang_code = "en"
  /\ period_index > 1
  /\ FilteredRows # <<>>
  /\ Len(FilteredRows) < Len(HeldRows)

----------------------------------------------------------------------------
(* The session and the panels: C6, C7, C8, C10 *)

\* The number of times x occurs in seq.
Count(seq, x) == Cardinality({i \in 1..Len(seq) : seq[i] = x})

\* rows is what loading the rows of the file gives: the same rows with the
\* date cells converted, in ascending order of date with NaT last.
IsLoadOf(rows, file) ==
  LET parsed == [i \in 1..Len(file.rows) |->
                   [date |-> IF file.rows[i].date.kind = "date"
                             THEN days_from_civil(file.rows[i].date.ymd[1],
                                                  file.rows[i].date.ymd[2],
                                                  file.rows[i].date.ymd[3])
                             ELSE NaT,
                    values |-> file.rows[i].values]]
  IN /\ Len(rows) = Len(parsed)
     /\ \A i \in 1..Len(rows) : Count(rows, rows[i]) = Count(parsed, rows[i])
     /\ \A i \in 1..(Len(rows) - 1) :
          rows[i + 1].date = NaT \/ (rows[i].date # NaT /\ rows[i].date <= rows[i + 1].date)

\* C6: the three session values are those of the last upload that loaded,
\* or the initial ones when none did; a failed upload leaves them alone.
C6_SessionOfLastGoodUpload ==
  IF last_ok = None
  THEN df_data = None /\ DOMAIN available_cols = {} /\ date_col = None
  ELSE /\ df_data # None
       /\ df_data[1].columns = last_ok[1].columns
       /\ IsLoadOf(df_data[1].rows, last_ok[1])
       /\ available_cols = find_matching_columns(last_ok[1].columns)
       /\ date_col = Some(last_ok[1].columns[1])

\* C6 witness: the last run ended in the exception handler on a file that
\* does not load, with the session holding an earlier upload.
C6_Witness ==
  /\ uploaded_file # None
  /\ ~FileLoads(uploaded_file[1])
  /\ uploaded_file[1].readable
  /\ Len(uploaded_file[1].columns) > 0
  /\ out.message = "load_error"
  /\ last_ok # None
  /\ df_data # None
  /\ DOMAIN available_cols # {}

\* The distinct columns the mapping binds that the filtered table has.
BoundColumns ==
  {available_cols[key] : key \in {k \in DOMAIN available_cols :
                                    InColumns(available_cols[k], out.current_df[1])}}

Shown(element) == \E i \in 1..Len(out.shown) : out.shown[i] = element

\* C7: in a run over a table with rows, with one bound column, whether one
\* key or several bind it, the correlation step shows the warning and no
\* matrix; a matrix is shown only with at least two distinct bound columns.
C7_OneColumnNoMatrix ==
  (out.current_df # None /\ out.current_df[1].rows # <<>>) =>
    /\ Cardinality(BoundColumns) = 1 =>
         (Shown("correlation_warning") /\ ~Shown("correlation_matrix"))
    /\ Shown("correlation_matrix") => Cardinality(BoundColumns) >= 2

\* The product of the trend section: the one selected, or the first option
\* when the selector was not shown.
TrendProduct ==
  IF out.selected_product # "" THEN out.selected_product
  ELSE ProductOptions(out.current_df[1], available_cols)[1]

\* C8: with the library present and fewer than 24 monthly points for the
\* product (a price column), a run over a filtered table with rows, be they
\* more than 24 or not, does not attempt the decomposition, shows the
\* message of the panel, and shows the data preview and the summary metrics.
C8_ShortSeriesMessage ==
  (/\ HAS_STATSMODELS
   /\ out.current_df # None
   /\ out.current_df[1].rows # <<>>
   /\ available_cols[TrendProduct] # date_col[1]
   /\ MonthlyPoints(out.current_df[1], available_cols[TrendProduct]) < 24)
  => /\ out.decomposition # "attempted"
     /\ Shown("decomposition_warning")
     /\ Shown("data_preview")
     /\ Shown("summary_metrics")

\* The session holds a table with an empty mapping.
Blocked == df_data # None /\ DOMAIN available_cols = {}

\* The run stopped with st.stop before anything of the dashboard, on the
\* error of the mapping, or on the error of the upload when the file in
\* the uploader did not load.
BlockedRun ==
  /\ out.status = "stopped"
  /\ out.shown = <<>>
  /\ out.current_df = None
  /\ out.decomposition = "skipped"
  /\ out.message = IF uploaded_file # None /\ ~FileLoads(uploaded_file[1])
                    THEN "load_error" ELSE "no_matching_columns"

\* The run went past the check of the mapping: it filtered and drew the
\* price chart, and over a table with rows whose date column no key binds
\* it ran to the summary metrics.
DashboardRun ==
  /\ out.status # "stopped"
  /\ out.message = ""
  /\ out.current_df # None
  /\ out.period_key = PeriodOptions[period_index]
  /\ Shown("price_trends_chart")
  /\ (/\ out.current_df[1].rows # <<>>
      /\ \A key \in DOMAIN available_cols : available_cols[key] # date_col[1])
     => (/\ out.status = "done"
         /\ Shown("statistics_table")
         /\ Shown("data_preview")
         /\ Shown("summary_metrics"))

====
